---- MODULE Spec2Model ----
(***************************************************************************)
(* A model of the artist-to-concert resolution pipeline of                 *)
(* spotify-concerts: ticketmaster.find_concerts_for_artists with the       *)
(* matcher find_attraction_id and the fetcher                              *)
(* search_concerts_by_attraction, and spotify.get_all_top_artists.         *)
(*                                                                         *)
(* Python strings are sequences of code points, so that string order,      *)
(* lower() and the substring test are computed and not assumed.  An        *)
(* optional value (None, an absent dict key) is the empty sequence and a   *)
(* present value v is <<v>>.                                               *)
(***************************************************************************)
EXTENDS Integers, Sequences, FiniteSets, TLC

VARIABLES
    pc,                 \* position of the running function
    artists,            \* argument of find_concerts_for_artists
    max_artists,        \* argument of find_concerts_for_artists
    artists_to_search,  \* ticketmaster.py:136
    i,                  \* number of artists the for loop has taken (line 138)
    attraction_id,      \* ticketmaster.py:147, an optional id
    concerts,           \* ticketmaster.py:155, the batch being merged
    j,                  \* number of concerts of the batch already merged
    all_concerts,       \* ticketmaster.py:132
    seen_event_ids,     \* ticketmaster.py:133
    result,             \* the returned list, <<>> until the function returns
    error,              \* the exception that left the function, <<>> if none
    astate,             \* history: per-artist state of the orchestrator
    fetched,            \* history: the batch each successful fetch returned
    log,                \* history: <<"sleep", ms>>, <<"match", artist, status,
                        \* id returned>>, <<"fetch", artist, status, id asked>>
    windows,            \* the three lists get_top_artists returns
    w,                  \* number of windows get_all_top_artists has scanned
    a,                  \* number of artists of the current window scanned
    artist_counts,      \* spotify.py:94
    artist_data,        \* spotify.py:95
    key_order,          \* insertion order of the keys of artist_counts
    top_artists,        \* the list get_all_top_artists returns, <<>> before
    m_name,             \* argument of find_attraction_id
    m_data,             \* the JSON body find_attraction_id receives
    m_result,           \* what find_attraction_id returned, <<"pending">> before
    f_data,             \* the events of the body search_concerts_by_attraction
                        \* decodes (ticketmaster.py:67-73)
    f_n,                \* number of events its for loop has taken
    f_events,           \* ticketmaster.py:68, the list it builds
    f_error,            \* the exception that left it, <<>> if none
    session,            \* the Flask session of the request (app.py:65, 72)
    response,           \* what concerts() returned, <<>> before
    invoked             \* history: the functions concerts() called, in order

vars == <<pc, artists, max_artists, artists_to_search, i, attraction_id,
          concerts, j, all_concerts, seen_event_ids, result, error, astate,
          fetched, log, windows, w, a, artist_counts, artist_data, key_order,
          top_artists, m_name, m_data, m_result, f_data, f_n, f_events,
          f_error, session, response, invoked>>

orchVars == <<artists, max_artists, artists_to_search, i, attraction_id,
              concerts, j, all_concerts, seen_event_ids, result, error,
              astate, fetched, log>>

aggVars == <<windows, w, a, artist_counts, artist_data, key_order, top_artists>>

matchVars == <<m_name, m_data, m_result>>

fetchVars == <<f_data, f_n, f_events, f_error>>

appVars == <<session, response, invoked>>

----------------------------------------------------------------------------
(* Bounds of the model *)

MaxArtists == 3

MaxBatch == 2

MaxWindow == 2

MaxCandidates == 2

----------------------------------------------------------------------------
(* Python values *)

None == <<>>

Some(v) == <<v>>

Min(x, y) == IF x <= y THEN x ELSE y

Max(x, y) == IF x >= y THEN x ELSE y

\* no two entries of s are equal
Distinct(s) == \A p, q \in 1..Len(s) : p # q => s[p] # s[q]

\* the code points of the ASCII digits
Digits == 48..57

\* s[:n] of a Python list
PySlice(s, n) ==
    IF n >= 0 THEN SubSeq(s, 1, Min(n, Len(s)))
    ELSE SubSeq(s, 1, Max(Len(s) + n, 0))

\* a < b for two Python str values (code point order)
RECURSIVE StrLess(_, _)
StrLess(x, y) ==
    IF y = <<>> THEN FALSE
    ELSE IF x = <<>> THEN TRUE
    ELSE IF x[1] # y[1] THEN x[1] < y[1]
    ELSE StrLess(Tail(x), Tail(y))

StrLeq(x, y) == x = y \/ StrLess(x, y)

\* str.lower() on the ASCII letters
Lower(s) == [k \in 1..Len(s) |-> IF s[k] \in 65..90 THEN s[k] + 32 ELSE s[k]]

\* sub in s, for two Python str values
StrIn(sub, s) ==
    \E off \in 0..(Len(s) - Len(sub)) : SubSeq(s, off + 1, off + Len(sub)) = sub

----------------------------------------------------------------------------
(* String literals of the source and of the modelled catalog *)

S_Air == <<65, 105, 114>>                                     \* "Air"
S_air == <<97, 105, 114>>                                     \* "air"
S_OASIS == <<79, 65, 83, 73, 83>>                             \* "OASIS"
S_Oasis == <<79, 97, 115, 105, 115>>                          \* "Oasis"
S_Blur == <<66, 108, 117, 114>>                               \* "Blur"
S_Muse == <<77, 117, 115, 101>>                               \* "Muse"
S_FreshAirLive == <<70, 114, 101, 115, 104, 32, 65, 105, 114, 32, 76, 105, 118, 101>>
S_AI == <<65, 73>>                                            \* "AI"
S_Empty == <<>>                                               \* ""
S_20240704 == <<50, 48, 50, 52, 45, 48, 55, 45, 48, 52>>      \* "2024-07-04"
S_20240705 == <<50, 48, 50, 52, 45, 48, 55, 45, 48, 53>>      \* "2024-07-05"
Sentinel == <<57, 57, 57, 57, 45, 57, 57, 45, 57, 57>>        \* "9999-99-99"

PaceMs == 150

BackoffMs == 2000

TooManyRequests == 429

----------------------------------------------------------------------------
(* HTTP responses of the catalog *)

\* requests.Response.raise_for_status raises HTTPError for 4xx and 5xx
RaisesForStatus(status) == status >= 400 /\ status < 600

HttpResponse(status, data) == [kind |-> "http", status |-> status, data |-> data]

\* requests.get itself raised (ConnectionError, Timeout): no HTTPError
TransportFailure == [kind |-> "transport", status |-> 0, data |-> None]

Failed(resp) == resp.kind = "transport" \/ RaisesForStatus(resp.status)

FailureResponses ==
    {TransportFailure, HttpResponse(429, None), HttpResponse(500, None)}

----------------------------------------------------------------------------
(* find_attraction_id, ticketmaster.py:12-44 *)

Attraction(id, name) == [id |-> id, name |-> name]

\* line 41
NameMatches_EqualOnly(attraction_name, artist_lower) ==
    attraction_name = artist_lower

NameMatches(attraction_name, artist_lower) ==
    attraction_name = artist_lower \/ StrIn(artist_lower, attraction_name)

\* lines 38-44: the for loop over the candidates
RECURSIVE FirstMatch(_, _)
FirstMatch(artist_lower, attractions) ==
    IF attractions = <<>> THEN None
    ELSE LET attraction == Head(attractions)
             attraction_name ==
                 Lower(IF attraction.name = None THEN S_Empty ELSE attraction.name[1])
         IN  IF NameMatches(attraction_name, artist_lower)
             THEN Some(attraction.id)
             ELSE FirstMatch(artist_lower, Tail(attractions))

\* lines 31-44, on the decoded body of a successful response
find_attraction_id(artist_name, data) ==
    IF ~data.embedded THEN None
    ELSE FirstMatch(Lower(artist_name),
                    IF data.attractions = None THEN <<>> ELSE data.attractions[1])

NoEmbedded == [embedded |-> FALSE, attractions |-> None]

Embedded(attractions) == [embedded |-> TRUE, attractions |-> attractions]

----------------------------------------------------------------------------
(* search_concerts_by_attraction, ticketmaster.py:47-117 *)

\* an event of the catalog's JSON: dates.start.localDate may be absent
CatalogEvent(id, localDate) == [id |-> id, localDate |-> localDate]

\* lines 82-84 and 106-114: the concert dict built from one event
Concert(event) ==
    [id |-> event.id,
     raw_date |-> IF event.localDate = None THEN S_Empty ELSE event.localDate[1]]

\* lines 67-117, on the decoded body of a successful response
search_concerts_by_attraction(data) ==
    IF ~data.embedded THEN <<>>
    ELSE LET events == IF data.events = None THEN <<>> ELSE data.events[1]
         IN  [k \in 1..Len(events) |-> Concert(events[k])]

NoEmbeddedEvents == [embedded |-> FALSE, events |-> None]

EmbeddedEvents(events) == [embedded |-> TRUE, events |-> Some(events)]

----------------------------------------------------------------------------
(* The inputs of find_concerts_for_artists and the catalog's answers *)

RankedArtists ==
    << [id |-> "a1", name |-> S_Air,   image_url |-> Some("img1")],
       [id |-> "a2", name |-> S_Oasis, image_url |-> None],
       [id |-> "a3", name |-> S_Blur,  image_url |-> Some("img3")],
       [id |-> "a4", name |-> S_Muse,  image_url |-> Some("img4")] >>

\* the events the catalog holds for the city, in the order the catalog
\* returns them under "sort": "date,asc" (line 61): two events on one day, a
\* later one, and an event without a local date
CatalogEvents ==
    << CatalogEvent("e1", Some(S_20240704)),
       CatalogEvent("e2", Some(S_20240704)),
       CatalogEvent("e3", Some(S_20240705)),
       CatalogEvent("e4", None) >>

\* the entries of s whose index is in keep, in the order of s
RECURSIVE Pick(_, _)
Pick(s, keep) ==
    IF s = <<>> THEN <<>>
    ELSE LET rest == Pick(SubSeq(s, 1, Len(s) - 1), keep)
         IN  IF Len(s) \in keep THEN Append(rest, s[Len(s)]) ELSE rest

\* what one events.json response can list: at most MaxBatch catalog events
EventLists ==
    { Pick(CatalogEvents, keep) :
        keep \in {x \in SUBSET (1..Len(CatalogEvents)) : Cardinality(x) <= MaxBatch} }

MatchResponses ==
    FailureResponses \cup
    { HttpResponse(200, NoEmbedded),
      HttpResponse(200, Embedded(Some(<< Attraction("K0", None) >>))),
      HttpResponse(200, Embedded(Some(<< Attraction("K1", Some(S_FreshAirLive)),
                                         Attraction("K2", Some(S_OASIS)),
                                         Attraction("K3", Some(S_Blur)),
                                         Attraction("K4", Some(S_Muse)) >>))) }

FetchResponses ==
    FailureResponses \cup
    { HttpResponse(200, NoEmbeddedEvents) } \cup
    { HttpResponse(200, EmbeddedEvents(s)) : s \in EventLists }

----------------------------------------------------------------------------
(* find_concerts_for_artists, ticketmaster.py:120-180 *)

\* line 149: not attraction_id
Falsy_Never(opt) == FALSE

Falsy(opt) == opt = None \/ opt[1] = ""

\* lines 157-158: the except clause takes an HTTPError whose status is 429
IsRateLimited_Never(resp) == FALSE

IsRateLimited_AnyFailure(resp) == TRUE

IsRateLimited(resp) == resp.kind = "http" /\ resp.status = TooManyRequests

\* line 166
AlreadySeen_Never(id, seen) == FALSE

AlreadySeen(id, seen) == id \in seen

\* lines 171-174
WithArtist(concert, artist) ==
    [id |-> concert.id, raw_date |-> concert.raw_date,
     artist |-> [name |-> artist.name, image_url |-> artist.image_url]]

\* a duplicate takes over the attribution of the event already accumulated
MergeConcert_LastArtistWins(acc, concert, artist) ==
    IF AlreadySeen(concert.id, acc.seen)
    THEN [all |-> [k \in 1..Len(acc.all) |->
                      IF acc.all[k].id = concert.id
                      THEN WithArtist(acc.all[k], artist) ELSE acc.all[k]],
          seen |-> acc.seen]
    ELSE [all |-> Append(acc.all, WithArtist(concert, artist)),
          seen |-> acc.seen \cup {concert.id}]

\* seen_event_ids.add(event_id) forgotten
MergeConcert_SeenNotRecorded(acc, concert, artist) ==
    IF AlreadySeen(concert.id, acc.seen)
    THEN acc
    ELSE [all |-> Append(acc.all, WithArtist(concert, artist)),
          seen |-> acc.seen]

\* lines 164-175: one iteration of the inner for loop
MergeConcert(acc, concert, artist) ==
    IF AlreadySeen(concert.id, acc.seen)
    THEN acc
    ELSE [all |-> Append(acc.all, WithArtist(concert, artist)),
          seen |-> acc.seen \cup {concert.id}]

\* line 178: the key of the sort
SortKey(x) == IF "raw_date" \in DOMAIN x THEN x.raw_date ELSE Sentinel

\* x goes before the first entry whose key is not smaller (equal keys swap)
RECURSIVE InsertBeforeEqual(_, _)
InsertBeforeEqual(x, s) ==
    IF s = <<>> THEN <<x>>
    ELSE IF StrLeq(SortKey(x), SortKey(Head(s))) THEN <<x>> \o s
    ELSE <<Head(s)>> \o InsertBeforeEqual(x, Tail(s))

\* x goes before the first entry whose key is greater
RECURSIVE InsertByKey(_, _)
InsertByKey(x, s) ==
    IF s = <<>> THEN <<x>>
    ELSE IF StrLess(SortKey(x), SortKey(Head(s))) THEN <<x>> \o s
    ELSE <<Head(s)>> \o InsertByKey(x, Tail(s))

RECURSIVE SortConcerts_Unstable(_)
SortConcerts_Unstable(s) ==
    IF s = <<>> THEN <<>>
    ELSE InsertBeforeEqual(s[Len(s)], SortConcerts_Unstable(SubSeq(s, 1, Len(s) - 1)))

\* line 178: list.sort is stable and ascending in the key (the sorted prefix
\* is bound once, then the last entry is inserted into it)
RECURSIVE SortConcerts(_)
SortConcerts(s) ==
    IF s = <<>> THEN <<>>
    ELSE CHOOSE r \in {InsertByKey(s[Len(s)], sorted) :
                          sorted \in {SortConcerts(SubSeq(s, 1, Len(s) - 1))}} : TRUE

\* line 136
ArtistsToSearch_NoCap(list, cap) == list

ArtistsToSearch(list, cap) == PySlice(list, cap)

OrchIdle ==
    /\ artists = <<>> /\ max_artists = 0 /\ artists_to_search = <<>>
    /\ i = 0 /\ attraction_id = None /\ concerts = <<>> /\ j = 0
    /\ all_concerts = <<>> /\ seen_event_ids = {} /\ result = None
    /\ error = None /\ astate = <<>> /\ fetched = <<>> /\ log = <<>>

AggIdle ==
    /\ windows = <<>> /\ w = 0 /\ a = 0 /\ artist_counts = <<>>
    /\ artist_data = <<>> /\ key_order = <<>> /\ top_artists = None

MatchIdle == m_name = <<>> /\ m_data = NoEmbedded /\ m_result = None

FetchIdle == f_data = <<>> /\ f_n = 0 /\ f_events = <<>> /\ f_error = None

AppIdle == session = <<>> /\ response = None /\ invoked = <<>>

\* the call find_concerts_for_artists(artists, city, max_artists)
Init ==
    /\ pc = "start"
    /\ \E n \in 0..MaxArtists : artists = SubSeq(RankedArtists, 1, n)
    /\ max_artists \in 0..MaxArtists
    /\ artists_to_search = <<>> /\ i = 0 /\ attraction_id = None
    /\ concerts = <<>> /\ j = 0 /\ all_concerts = <<>> /\ seen_event_ids = {}
    /\ result = None /\ error = None /\ astate = <<>> /\ fetched = <<>>
    /\ log = <<>>
    /\ AggIdle /\ MatchIdle /\ FetchIdle /\ AppIdle

\* lines 132-136
Start ==
    /\ pc = "start"
    /\ all_concerts' = <<>>
    /\ seen_event_ids' = {}
    /\ artists_to_search' = ArtistsToSearch(artists, max_artists)
    /\ astate' = [k \in 1..Len(artists_to_search') |-> "Pending"]
    /\ fetched' = [k \in 1..Len(artists_to_search') |-> None]
    /\ pc' = "loop"
    /\ UNCHANGED <<artists, max_artists, i, attraction_id, concerts, j, result,
                   error, log, aggVars, matchVars, fetchVars, appVars>>

\* the pacing of lines 140-141 left out
NextArtist_NoPace ==
    /\ pc = "loop"
    /\ i < Len(artists_to_search)
    /\ i' = i + 1
    /\ pc' = "match"
    /\ UNCHANGED <<artists, max_artists, artists_to_search, attraction_id,
                   concerts, j, all_concerts, seen_event_ids, result, error,
                   astate, fetched, log, aggVars, matchVars, fetchVars, appVars>>

\* lines 138-143: the for loop takes the next artist, pacing after the first
NextArtist ==
    /\ pc = "loop"
    /\ i < Len(artists_to_search)
    /\ i' = i + 1
    /\ log' = IF i > 0 THEN Append(log, <<"sleep", PaceMs>>) ELSE log
    /\ pc' = "match"
    /\ UNCHANGED <<artists, max_artists, artists_to_search, attraction_id,
                   concerts, j, all_concerts, seen_event_ids, result, error,
                   astate, fetched, aggVars, matchVars, fetchVars, appVars>>

\* a rate-limited call is tried again for the same artist after the back-off
HandleFailure_Retry(resp, called) ==
    IF IsRateLimited(resp)
    THEN /\ log' = Append(called, <<"sleep", BackoffMs>>)
         /\ astate' = [astate EXCEPT ![i] = "RateLimited-Skip"]
         /\ pc' = "match"
         /\ error' = error
    ELSE /\ log' = called
         /\ astate' = [astate EXCEPT ![i] = "Error-Abort"]
         /\ pc' = "raised"
         /\ error' = Some([kind |-> resp.kind, status |-> resp.status])

\* lines 157-162, and an exception the except clause does not take
HandleFailure(resp, called) ==
    IF IsRateLimited(resp)
    THEN /\ log' = Append(called, <<"sleep", BackoffMs>>)
         /\ astate' = [astate EXCEPT ![i] = "RateLimited-Skip"]
         /\ pc' = "loop"
         /\ error' = error
    ELSE /\ log' = called
         /\ astate' = [astate EXCEPT ![i] = "Error-Abort"]
         /\ pc' = "raised"
         /\ error' = Some([kind |-> resp.kind, status |-> resp.status])

\* lines 147-152: the match call and what follows it inside the try
Match ==
    /\ pc = "match"
    /\ \E resp \in MatchResponses :
         LET found == find_attraction_id(artists_to_search[i].name, resp.data)
             called == Append(log, <<"match", i, resp.status,
                                     IF Failed(resp) THEN None ELSE found>>)
         IN  IF Failed(resp)
             THEN /\ HandleFailure(resp, called)
                  /\ attraction_id' = attraction_id
             ELSE IF Falsy(found)
             THEN /\ attraction_id' = found
                  /\ astate' = [astate EXCEPT ![i] = "NoMatch-Skip"]
                  /\ log' = called
                  /\ pc' = "loop"
                  /\ error' = error
             ELSE /\ attraction_id' = found
                  /\ astate' = [astate EXCEPT ![i] = "Matched"]
                  /\ log' = Append(called, <<"sleep", PaceMs>>)
                  /\ pc' = "fetch"
                  /\ error' = error
    /\ UNCHANGED <<artists, max_artists, artists_to_search, i, concerts, j,
                   all_concerts, seen_event_ids, result, fetched, aggVars,
                   matchVars, fetchVars, appVars>>

\* line 155: the fetch call
Fetch ==
    /\ pc = "fetch"
    /\ \E resp \in FetchResponses :
         LET called == Append(log, <<"fetch", i, resp.status, attraction_id>>)
         IN  IF Failed(resp)
             THEN /\ HandleFailure(resp, called)
                  /\ UNCHANGED <<concerts, j, fetched>>
             ELSE /\ concerts' = search_concerts_by_attraction(resp.data)
                  /\ j' = 0
                  /\ fetched' = [fetched EXCEPT ![i] = Some(concerts')]
                  /\ astate' = [astate EXCEPT ![i] = "Fetched"]
                  /\ log' = called
                  /\ pc' = "merge"
                  /\ error' = error
    /\ UNCHANGED <<artists, max_artists, artists_to_search, i, attraction_id,
                   all_concerts, seen_event_ids, result, aggVars, matchVars,
                   fetchVars, appVars>>

\* the inner loop merges a concert without moving on to the next one
MergeStep_NoAdvance ==
    /\ pc = "merge"
    /\ j < Len(concerts)
    /\ LET acc == MergeConcert([all |-> all_concerts, seen |-> seen_event_ids],
                               concerts[j + 1], artists_to_search[i])
       IN  /\ all_concerts' = acc.all
           /\ seen_event_ids' = acc.seen
    /\ UNCHANGED <<pc, artists, max_artists, artists_to_search, i, attraction_id,
                   concerts, j, result, error, astate, fetched, log, aggVars,
                   matchVars, fetchVars, appVars>>

\* lines 164-175: the inner for loop takes the next concert of the batch
MergeStep ==
    /\ pc = "merge"
    /\ j < Len(concerts)
    /\ LET acc == MergeConcert([all |-> all_concerts, seen |-> seen_event_ids],
                               concerts[j + 1], artists_to_search[i])
       IN  /\ all_concerts' = acc.all
           /\ seen_event_ids' = acc.seen
    /\ j' = j + 1
    /\ UNCHANGED <<pc, artists, max_artists, artists_to_search, i, attraction_id,
                   concerts, result, error, astate, fetched, log, aggVars,
                   matchVars, fetchVars, appVars>>

\* the inner for loop is exhausted
MergeDone ==
    /\ pc = "merge"
    /\ j = Len(concerts)
    /\ pc' = "loop"
    /\ UNCHANGED <<orchVars, aggVars, matchVars, fetchVars, appVars>>

\* lines 177-180: the outer loop is exhausted; sort in place and return
Return ==
    /\ pc = "loop"
    /\ i = Len(artists_to_search)
    /\ all_concerts' = SortConcerts(all_concerts)
    /\ result' = Some(all_concerts')
    /\ pc' = "done"
    /\ UNCHANGED <<artists, max_artists, artists_to_search, i, attraction_id,
                   concerts, j, seen_event_ids, error, astate, fetched, log,
                   aggVars, matchVars, fetchVars, appVars>>

Next ==
    \/ Start
    \/ NextArtist
    \/ Match
    \/ Fetch
    \/ MergeStep
    \/ MergeDone
    \/ Return

Spec == Init /\ [][Next]_vars

\* the function is one sequential flow and every call it makes responds, so
\* a step that can be taken is taken
SpecFair == Spec /\ WF_vars(Next)

----------------------------------------------------------------------------
(* get_all_top_artists, spotify.py:87-107 *)

TimeRanges == <<"short_term", "medium_term", "long_term">>

SpotifyIds == <<"a1", "a2", "a3">>

\* the record get_top_artists builds (spotify.py:76-81) for artist id in the
\* window of time range t: image and genres as that window reports them
TopArtist(id, t) ==
    [id |-> id,
     image_url |-> IF t = 2 THEN None ELSE Some(<<id, TimeRanges[t]>>),
     genres |-> <<TimeRanges[t]>>]

\* one window: a ranking of at most MaxWindow artists, each listed once
WindowRankings ==
    UNION { {r \in [1..n -> 1..Len(SpotifyIds)] : Distinct(r)} : n \in 0..MaxWindow }

Window(r, t) == [k \in 1..Len(r) |-> TopArtist(SpotifyIds[r[k]], t)]

\* dict.get(key, 0) on artist_counts
CountOf(counts, id) == IF id \in DOMAIN counts THEN counts[id] ELSE 0

\* d[key] = value on a dict held as a function
DictSet(d, key, value) ==
    [x \in (DOMAIN d) \cup {key} |-> IF x = key THEN value ELSE d[x]]

\* id goes before the first entry whose count is not greater (ties swap)
RECURSIVE InsertByCount_BeforeTies(_, _, _)
InsertByCount_BeforeTies(id, s, counts) ==
    IF s = <<>> THEN <<id>>
    ELSE IF counts[id] >= counts[Head(s)] THEN <<id>> \o s
    ELSE <<Head(s)>> \o InsertByCount_BeforeTies(id, Tail(s), counts)

\* id goes before the first entry whose count is greater
RECURSIVE InsertByCount_Ascending(_, _, _)
InsertByCount_Ascending(id, s, counts) ==
    IF s = <<>> THEN <<id>>
    ELSE IF counts[id] < counts[Head(s)] THEN <<id>> \o s
    ELSE <<Head(s)>> \o InsertByCount_Ascending(id, Tail(s), counts)

\* id goes before the first entry whose count is smaller
RECURSIVE InsertByCount(_, _, _)
InsertByCount(id, s, counts) ==
    IF s = <<>> THEN <<id>>
    ELSE IF counts[id] > counts[Head(s)] THEN <<id>> \o s
    ELSE <<Head(s)>> \o InsertByCount(id, Tail(s), counts)

\* sorted(...)[::-1] in place of reverse=True: equal counts come out reversed
RECURSIVE SortedIds_TiesReversed(_, _)
SortedIds_TiesReversed(keys, counts) ==
    IF keys = <<>> THEN <<>>
    ELSE InsertByCount_BeforeTies(keys[Len(keys)],
             SortedIds_TiesReversed(SubSeq(keys, 1, Len(keys) - 1), counts), counts)

\* reverse=True forgotten
RECURSIVE SortedIds_Ascending(_, _)
SortedIds_Ascending(keys, counts) ==
    IF keys = <<>> THEN <<>>
    ELSE InsertByCount_Ascending(keys[Len(keys)],
             SortedIds_Ascending(SubSeq(keys, 1, Len(keys) - 1), counts), counts)

\* line 105: sorted(keys, key=count, reverse=True) is stable and descending
RECURSIVE SortedIds(_, _)
SortedIds(keys, counts) ==
    IF keys = <<>> THEN <<>>
    ELSE InsertByCount(keys[Len(keys)],
             SortedIds(SubSeq(keys, 1, Len(keys) - 1), counts), counts)

\* the call get_all_top_artists(access_token), with the three windows the
\* source will return
InitAgg ==
    /\ pc = "scan"
    /\ \E r1, r2, r3 \in WindowRankings :
         windows = << Window(r1, 1), Window(r2, 2), Window(r3, 3) >>
    /\ w = 0 /\ a = 0
    /\ artist_counts = <<>> /\ artist_data = <<>> /\ key_order = <<>>
    /\ top_artists = None
    /\ OrchIdle /\ MatchIdle /\ FetchIdle /\ AppIdle

\* artist_data.setdefault(artist_id, artist): the first record is kept
AggScanArtist_FirstWriteWins ==
    /\ pc = "scan"
    /\ w < Len(TimeRanges)
    /\ a < Len(windows[w + 1])
    /\ LET artist == windows[w + 1][a + 1]
           artist_id == artist.id
       IN  /\ key_order' = IF artist_id \in DOMAIN artist_counts
                           THEN key_order ELSE Append(key_order, artist_id)
           /\ artist_counts' =
                  DictSet(artist_counts, artist_id, CountOf(artist_counts, artist_id) + 1)
           /\ artist_data' = IF artist_id \in DOMAIN artist_data
                             THEN artist_data
                             ELSE DictSet(artist_data, artist_id, artist)
    /\ a' = a + 1
    /\ UNCHANGED <<pc, windows, w, top_artists, orchVars, matchVars, fetchVars, appVars>>

\* lines 99-102: the inner loop takes the next artist of the current window
AggScanArtist ==
    /\ pc = "scan"
    /\ w < Len(TimeRanges)
    /\ a < Len(windows[w + 1])
    /\ LET artist == windows[w + 1][a + 1]
           artist_id == artist.id
       IN  /\ key_order' = IF artist_id \in DOMAIN artist_counts
                           THEN key_order ELSE Append(key_order, artist_id)
           /\ artist_counts' =
                  DictSet(artist_counts, artist_id, CountOf(artist_counts, artist_id) + 1)
           /\ artist_data' = DictSet(artist_data, artist_id, artist)
    /\ a' = a + 1
    /\ UNCHANGED <<pc, windows, w, top_artists, orchVars, matchVars, fetchVars, appVars>>

\* lines 97-98: the current window is exhausted, the next one is fetched
AggNextWindow ==
    /\ pc = "scan"
    /\ w < Len(TimeRanges)
    /\ a = Len(windows[w + 1])
    /\ w' = w + 1
    /\ a' = 0
    /\ UNCHANGED <<pc, windows, artist_counts, artist_data, key_order,
                   top_artists, orchVars, matchVars, fetchVars, appVars>>

\* lines 104-107
AggReturn ==
    /\ pc = "scan"
    /\ w = Len(TimeRanges)
    /\ LET sorted_ids == SortedIds(key_order, artist_counts)
       IN  top_artists' = Some([k \in 1..Len(sorted_ids) |-> artist_data[sorted_ids[k]]])
    /\ pc' = "agg_done"
    /\ UNCHANGED <<windows, w, a, artist_counts, artist_data, key_order,
                   orchVars, matchVars, fetchVars, appVars>>

NextAgg ==
    \/ AggScanArtist
    \/ AggNextWindow
    \/ AggReturn

SpecAgg == InitAgg /\ [][NextAgg]_vars

----------------------------------------------------------------------------
(* find_attraction_id applied to one decoded response *)

Queries == {S_Air, S_air, S_OASIS, S_Blur}

Candidates ==
    << Attraction("K1", Some(S_FreshAirLive)),
       Attraction("K2", Some(S_air)),
       Attraction("K3", Some(S_Oasis)),
       Attraction("K4", Some(S_AI)),
       Attraction("K5", None) >>

CandidateLists ==
    UNION { {[k \in 1..n |-> Candidates[c[k]]] : c \in [1..n -> 1..Len(Candidates)]}
            : n \in 0..MaxCandidates }

MatchBodies ==
    {NoEmbedded, Embedded(None)} \cup {Embedded(Some(c)) : c \in CandidateLists}

\* the call find_attraction_id(artist_name), with the body the catalog returns
InitMatch ==
    /\ pc = "m_call"
    /\ m_name \in Queries
    /\ m_data \in MatchBodies
    /\ m_result = None
    /\ OrchIdle /\ AggIdle /\ FetchIdle /\ AppIdle

\* lines 31-44
MatchCall ==
    /\ pc = "m_call"
    /\ m_result' = find_attraction_id(m_name, m_data)
    /\ pc' = "m_done"
    /\ UNCHANGED <<m_name, m_data, orchVars, aggVars, fetchVars, appVars>>

NextMatch == MatchCall

SpecMatch == InitMatch /\ [][NextMatch]_vars

----------------------------------------------------------------------------
(* The date formatting of search_concerts_by_attraction,
   ticketmaster.py:82-97, on str values held as code points *)

MaxEvents == 2

S_2024_7_4 == <<50, 48, 50, 52, 45, 55, 45, 52>>               \* "2024-7-4"
S_20240230 == <<50, 48, 50, 52, 45, 48, 50, 45, 51, 48>>       \* "2024-02-30"
S_07_04_2024 == <<48, 55, 47, 48, 52, 47, 50, 48, 50, 52>>     \* "07/04/2024"
S_193000 == <<49, 57, 58, 51, 48, 58, 48, 48>>                 \* "19:30:00"
S_000500 == <<48, 48, 58, 48, 53, 58, 48, 48>>                 \* "00:05:00"
S_1930 == <<49, 57, 58, 51, 48>>                               \* "19:30"
S_250000 == <<50, 53, 58, 48, 48, 58, 48, 48>>                 \* "25:00:00"
S_at == <<32, 97, 116, 32>>                                    \* " at "

DateFormat == "%Y-%m-%d"

TimeFormat == "%H:%M:%S"

AllDigits(s) == \A k \in 1..Len(s) : s[k] \in Digits

\* int(s) on a str of ASCII digits
RECURSIVE ToInt(_)
ToInt(s) ==
    IF s = <<>> THEN 0
    ELSE 10 * ToInt(SubSeq(s, 1, Len(s) - 1)) + (s[Len(s)] - 48)

\* str(n) for n >= 0
RECURSIVE ToDecimal(_)
ToDecimal(n) ==
    IF n < 10 THEN <<48 + n>> ELSE ToDecimal(n \div 10) \o <<48 + (n % 10)>>

\* %02d
TwoDigits(n) == <<48 + (n \div 10), 48 + (n % 10)>>

\* s.split(sep) for a one-character separator
RECURSIVE Split(_, _)
Split(s, sep) ==
    IF \A k \in 1..Len(s) : s[k] # sep THEN <<s>>
    ELSE LET p == CHOOSE k \in 1..Len(s) :
                      s[k] = sep /\ \A q \in 1..(k - 1) : s[q] # sep
         IN  <<SubSeq(s, 1, p - 1)>> \o Split(SubSeq(s, p + 1, Len(s)), sep)

\* one or two digits with a value in lo..hi: the patterns strptime compiles
\* for %m (1[0-2]|0[1-9]|[1-9]), %H (2[0-3]|[0-1]\d|\d), %M ([0-5]\d|\d) and
\* %S (6[0-1]|[0-5]\d|\d)
NumberField(f, lo, hi) ==
    /\ Len(f) \in 1..2
    /\ AllDigits(f)
    /\ ToInt(f) \in lo..hi

\* %Y: exactly four digits
YearField(f) == Len(f) = 4 /\ AllDigits(f)

\* %d: 3[0-1]|[1-2]\d|0[1-9]|[1-9]| [1-9]
DayField(f) ==
    \/ NumberField(f, 1, 31)
    \/ (Len(f) = 2 /\ f[1] = 32 /\ f[2] \in 49..57)

DayOf(f) == IF f[1] = 32 THEN f[2] - 48 ELSE ToInt(f)

IsLeap(y) == (y % 4 = 0 /\ y % 100 # 0) \/ y % 400 = 0

DaysInMonth(y, m) ==
    IF m = 2 THEN (IF IsLeap(y) THEN 29 ELSE 28)
    ELSE IF m \in {4, 6, 9, 11} THEN 30 ELSE 31

\* what datetime.strptime raises on a str that does not match the format or
\* names no date or time
ValueError == [exc |-> "ValueError"]

\* lines 90 and 93: datetime.strptime(s, fmt) for the two formats of the source;
\* the whole of s must match, and the fields must name a date or a time
strptime(s, fmt) ==
    IF fmt = DateFormat
    THEN LET f == Split(s, 45)
         IN  IF /\ Len(f) = 3
                /\ YearField(f[1]) /\ NumberField(f[2], 1, 12) /\ DayField(f[3])
                /\ ToInt(f[1]) >= 1
                /\ DayOf(f[3]) <= DaysInMonth(ToInt(f[1]), ToInt(f[2]))
             THEN [exc |-> "", year |-> ToInt(f[1]), month |-> ToInt(f[2]),
                   day |-> DayOf(f[3])]
             ELSE ValueError
    ELSE LET f == Split(s, 58)
         IN  IF /\ Len(f) = 3
                /\ NumberField(f[1], 0, 23) /\ NumberField(f[2], 0, 59)
                /\ NumberField(f[3], 0, 61)
                /\ ToInt(f[3]) <= 59
             THEN [exc |-> "", hour |-> ToInt(f[1]), minute |-> ToInt(f[2]),
                   second |-> ToInt(f[3])]
             ELSE ValueError

\* %b in the C locale
MonthAbbr ==
    << <<74, 97, 110>>, <<70, 101, 98>>, <<77, 97, 114>>, <<65, 112, 114>>,
       <<77, 97, 121>>, <<74, 117, 110>>, <<74, 117, 108>>, <<65, 117, 103>>,
       <<83, 101, 112>>, <<79, 99, 116>>, <<78, 111, 118>>, <<68, 101, 99>> >>

\* line 91: dt.strftime("%b %d, %Y")
strftime_date(dt) ==
    MonthAbbr[dt.month] \o <<32>> \o TwoDigits(dt.day) \o <<44, 32>>
        \o ToDecimal(dt.year)

\* line 94: time_dt.strftime('%I:%M %p')
strftime_time(time_dt) ==
    LET h == time_dt.hour % 12
    IN  TwoDigits(IF h = 0 THEN 12 ELSE h) \o <<58>> \o TwoDigits(time_dt.minute)
            \o <<32>> \o (IF time_dt.hour < 12 THEN <<65, 77>> ELSE <<80, 77>>)

\* the time failure leaves the date formatted, without the suffix
formatted_date_KeepsDate(date_str, time_str) ==
    IF date_str = S_Empty THEN [exc |-> "", value |-> S_Empty]
    ELSE LET dt == strptime(date_str, DateFormat)
         IN  IF dt.exc = "ValueError" THEN [exc |-> "", value |-> date_str]
             ELSE IF dt.exc # "" THEN [exc |-> dt.exc, value |-> S_Empty]
             ELSE IF time_str = S_Empty
                  THEN [exc |-> "", value |-> strftime_date(dt)]
                  ELSE LET time_dt == strptime(time_str, TimeFormat)
                       IN  IF time_dt.exc # ""
                           THEN [exc |-> "", value |-> strftime_date(dt)]
                           ELSE [exc |-> "",
                                 value |-> strftime_date(dt) \o S_at
                                               \o strftime_time(time_dt)]

\* lines 87-97: formatted_date, or the exception the try statement lets out;
\* the except clause takes ValueError only
formatted_date(date_str, time_str) ==
    IF date_str = S_Empty THEN [exc |-> "", value |-> S_Empty]
    ELSE LET dt == strptime(date_str, DateFormat)
         IN  IF dt.exc = "ValueError" THEN [exc |-> "", value |-> date_str]
             ELSE IF dt.exc # "" THEN [exc |-> dt.exc, value |-> S_Empty]
             ELSE IF time_str = S_Empty
                  THEN [exc |-> "", value |-> strftime_date(dt)]
                  ELSE LET time_dt == strptime(time_str, TimeFormat)
                       IN  IF time_dt.exc = "ValueError"
                           THEN [exc |-> "", value |-> date_str]
                           ELSE IF time_dt.exc # ""
                           THEN [exc |-> time_dt.exc, value |-> S_Empty]
                           ELSE [exc |-> "",
                                 value |-> strftime_date(dt) \o S_at
                                               \o strftime_time(time_dt)]

\* d.get(key, "") on an optional str
GetStr(field) == IF field = None THEN S_Empty ELSE field[1]

\* an event of the body: dates.start.localDate and localTime may be absent
Event(id, localDate, localTime) ==
    [id |-> id, localDate |-> localDate, localTime |-> localTime]

LocalDates ==
    {None, Some(S_20240704), Some(S_2024_7_4), Some(S_20240230),
     Some(S_07_04_2024)}

LocalTimes ==
    {None, Some(S_193000), Some(S_000500), Some(S_1930), Some(S_250000)}

EventIds == <<"e1", "e2", "e3", "e4">>

\* the call search_concerts_by_attraction(attraction_id, city), with the
\* events the body will list
InitFetch ==
    /\ pc = "fetch_loop"
    /\ \E n \in 0..MaxEvents :
         \E d \in [1..n -> LocalDates], t \in [1..n -> LocalTimes] :
             f_data = [k \in 1..n |-> Event(EventIds[k], d[k], t[k])]
    /\ f_n = 0 /\ f_events = <<>> /\ f_error = None
    /\ OrchIdle /\ AggIdle /\ MatchIdle /\ AppIdle

\* lines 73-115: the for loop takes the next event and appends its concert
FetchEvent ==
    /\ pc = "fetch_loop"
    /\ f_n < Len(f_data)
    /\ LET event == f_data[f_n + 1]
           date_str == GetStr(event.localDate)
           time_str == GetStr(event.localTime)
           formatted == formatted_date(date_str, time_str)
       IN  IF formatted.exc = ""
           THEN /\ f_events' = Append(f_events,
                                      [id |-> event.id, date |-> formatted.value,
                                       raw_date |-> date_str])
                /\ f_n' = f_n + 1
                /\ UNCHANGED <<pc, f_error>>
           ELSE /\ f_error' = Some(formatted.exc)
                /\ pc' = "fetch_raised"
                /\ UNCHANGED <<f_n, f_events>>
    /\ UNCHANGED <<f_data, orchVars, aggVars, matchVars, appVars>>

\* line 117
FetchReturn ==
    /\ pc = "fetch_loop"
    /\ f_n = Len(f_data)
    /\ pc' = "fetch_done"
    /\ UNCHANGED <<fetchVars, orchVars, aggVars, matchVars, appVars>>

NextFetch ==
    \/ FetchEvent
    \/ FetchReturn

SpecFetch == InitFetch /\ [][NextFetch]_vars

----------------------------------------------------------------------------
(* concerts(), app.py:62-96 *)

\* line 74
DefaultCity == "San Francisco"

\* what a call made inside the try statement does: it returns a value, or it
\* raises after having gathered some events of its own
Returning(value) == [raised |-> None, value |-> value, gathered |-> <<>>]

Raising(class, message, gathered) ==
    [raised |-> Some([class |-> class, message |-> message]),
     value |-> <<>>, gathered |-> gathered]

\* the exceptions the two calls raise: raise_for_status (spotify.py:70,
\* ticketmaster.py:29, 65), requests.get itself, os.environ[...] and item[...]
ExceptionClasses == {"HTTPError", "ConnectionError", "KeyError"}

\* except requests.HTTPError in place of except Exception
Caught_HttpErrorOnly(e) == e.class = "HTTPError"

\* line 89: except Exception takes every class derived from Exception
Caught(e) == e.class \in ExceptionClasses

\* line 78: what spotify.get_all_top_artists(access_token) can do
AggregationOutcomes ==
    {Returning(SubSeq(RankedArtists, 1, n)) : n \in 0..MaxArtists}
        \cup {Raising("HTTPError", "401 Client Error", <<>>),
              Raising("ConnectionError", "Connection refused", <<>>)}

\* the lists find_concerts_for_artists can have accumulated
GatheredLists ==
    {[k \in 1..n |-> Concert(CatalogEvents[k])] : n \in 0..MaxBatch}

\* line 81: what ticketmaster.find_concerts_for_artists(artists, city) can do
ResolutionOutcomes ==
    {Returning(g) : g \in GatheredLists}
        \cup {Raising("HTTPError", "500 Server Error", g) : g \in GatheredLists}
        \cup {Raising("ConnectionError", "Connection refused", g) :
                  g \in GatheredLists}
        \cup {Raising("KeyError", "'TICKETMASTER_API_KEY'", <<>>)}

\* request.args.get("city")
CityArgs == {None, Some(""), Some("Austin"), Some("Boston")}

\* lines 67 and 83-96: the responses of the handler; Unhandled is the
\* exception Flask gets when the handler lets one out
Redirect(endpoint) == [kind |-> "redirect", to |-> endpoint]

Render(template, concert_list, artist_count, city, err) ==
    [kind |-> "render", template |-> template, concerts |-> concert_list,
     artist_count |-> artist_count, city |-> city, error |-> err]

Unhandled(e) == [kind |-> "unhandled", exception |-> e]

\* lines 89-96
OnException(e, city) ==
    IF Caught(e)
    THEN Render("concerts.html", <<>>, 0, city, Some(e.message))
    ELSE Unhandled(e)

\* a browser session with or without a token, with or without a stored city
InitApp ==
    /\ pc = "app"
    /\ \E token \in {None, Some(""), Some("BQD")}, city \in {None, Some("Austin")} :
         session = [access_token |-> token, city |-> city]
    /\ response = None
    /\ invoked = <<>>
    /\ OrchIdle /\ AggIdle /\ MatchIdle /\ FetchIdle

\* lines 63-96: one GET /concerts
ConcertsRequest ==
    /\ pc = "app"
    /\ \E city_arg \in CityArgs, agg \in AggregationOutcomes,
          res \in ResolutionOutcomes :
         LET access_token == session.access_token
             city == IF ~Falsy(city_arg) THEN city_arg[1]
                     ELSE IF session.city = None THEN DefaultCity
                     ELSE session.city[1]
             top == <<"get_all_top_artists", access_token, agg>>
             found == <<"find_concerts_for_artists", agg.value, city, res>>
         IN  IF Falsy(access_token)
             THEN /\ response' = Some(Redirect("index"))
                  /\ invoked' = <<>>
                  /\ UNCHANGED session
             ELSE /\ session' = IF ~Falsy(city_arg)
                                THEN [session EXCEPT !.city = city_arg]
                                ELSE session
                  /\ IF agg.raised # None
                     THEN /\ invoked' = <<top>>
                          /\ response' = Some(OnException(agg.raised[1], city))
                     ELSE IF res.raised # None
                     THEN /\ invoked' = <<top, found>>
                          /\ response' = Some(OnException(res.raised[1], city))
                     ELSE /\ invoked' = <<top, found>>
                          /\ response' = Some(Render("concerts.html", res.value,
                                                     Len(agg.value), city, None))
    /\ UNCHANGED <<pc, orchVars, aggVars, matchVars, fetchVars>>

NextApp == ConcertsRequest

SpecApp == InitApp /\ [][NextApp]_vars

----------------------------------------------------------------------------
(* Vocabulary of the properties, read off the history variables *)

Ids(s) == {s[k].id : k \in 1..Len(s)}

Cap == Min(Len(artists), max_artists)

IsCall(entry) == entry[1] \in {"match", "fetch"}

\* the catalog calls of the run, in program order
Calls == SelectSeq(log, IsCall)

\* a catalog call for artist k got HTTP 429
RateLimitedCall(k) ==
    \E p \in 1..Len(log) :
        IsCall(log[p]) /\ log[p][2] = k /\ log[p][3] = TooManyRequests

\* entry p of the log is a catalog call that failed otherwise
FatalCallAt(p) ==
    /\ IsCall(log[p])
    /\ log[p][3] # TooManyRequests
    /\ (log[p][3] = 0 \/ RaisesForStatus(log[p][3]))

\* the artists whose successful fetch returned event id
Finders(id) ==
    {k \in 1..Len(fetched) : fetched[k] # None /\ id \in Ids(fetched[k][1])}

FirstFinder(id) == CHOOSE k \in Finders(id) : \A q \in Finders(id) : k <= q

\* position of id in the batch of its first finder
FirstPosition(id) ==
    LET batch == fetched[FirstFinder(id)][1]
    IN  CHOOSE p \in 1..Len(batch) :
            /\ batch[p].id = id
            /\ \A q \in 1..Len(batch) : batch[q].id = id => p <= q

\* id1 was discovered before id2: artist rank, then position in the batch
DiscoveredBefore(id1, id2) ==
    \/ FirstFinder(id1) < FirstFinder(id2)
    \/ /\ FirstFinder(id1) = FirstFinder(id2)
       /\ FirstPosition(id1) < FirstPosition(id2)

ArtistInfo(k) ==
    [name |-> artists[k].name, image_url |-> artists[k].image_url]

\* s has the shape YYYY-MM-DD
IsIsoDate(s) ==
    /\ Len(s) = 10
    /\ s[5] = 45 /\ s[8] = 45
    /\ \A k \in {1, 2, 3, 4, 6, 7, 9, 10} : s[k] \in Digits

Returned == pc = "done" /\ result # None

----------------------------------------------------------------------------
(* C1: the list find_concerts_for_artists returns holds no two events with
   the same id, also when two artists' fetches return the same event id. *)
C1_UniqueEventIds ==
    Returned =>
        \A p, q \in 1..Len(result[1]) :
            p # q => result[1][p].id # result[1][q].id

\* returned after two different artists' fetches gave the same event id
C1_Witness ==
    /\ Returned
    /\ \E k1, k2 \in 1..Len(fetched) :
         /\ k1 < k2
         /\ fetched[k1] # None /\ fetched[k2] # None
         /\ Ids(fetched[k1][1]) \cap Ids(fetched[k2][1]) # {}

(* C2: an event id that several artists' fetches return appears exactly once
   in the output and carries the name and image_url of the first artist in
   ranked order whose successful fetch returned it; at no point of the run
   does an accumulated event carry another attribution. *)
C2_FirstArtistAttribution ==
    /\ \A p \in 1..Len(all_concerts) :
         /\ Finders(all_concerts[p].id) # {}
         /\ all_concerts[p].artist = ArtistInfo(FirstFinder(all_concerts[p].id))
    /\ Returned =>
         \A k \in 1..Len(fetched) :
            fetched[k] # None =>
               \A id \in Ids(fetched[k][1]) :
                  Cardinality({p \in 1..Len(result[1]) : result[1][p].id = id}) = 1

\* returned an event that the first and a later artist both fetched
C2_Witness ==
    /\ Returned
    /\ \E p \in 1..Len(result[1]) :
         /\ Cardinality(Finders(result[1][p].id)) >= 2
         /\ result[1][p].artist.name = artists[1].name
         /\ 1 \in Finders(result[1][p].id)

(* C3: the returned list is ascending by raw_date in string order, and two
   events with equal raw_date keep their discovery order (artist rank, then
   position in that artist's fetch result). *)
C3_SortedStable ==
    Returned =>
        \A p, q \in 1..Len(result[1]) :
            p < q =>
               /\ StrLeq(result[1][p].raw_date, result[1][q].raw_date)
               /\ result[1][p].raw_date = result[1][q].raw_date
                    => DiscoveredBefore(result[1][p].id, result[1][q].id)

\* the sort moved a later discovery forward and kept a tie in discovery order
C3_Witness ==
    /\ Returned
    /\ \E p, q \in 1..Len(result[1]) :
         /\ p < q
         /\ DiscoveredBefore(result[1][q].id, result[1][p].id)
    /\ \E p, q \in 1..Len(result[1]) :
         /\ p < q
         /\ result[1][p].raw_date = result[1][q].raw_date

(* C4: every returned event's raw_date is a YYYY-MM-DD string or the sentinel
   "9999-99-99", and every event without a valid local date comes after every
   event with one. *)
C4_UndatedSortLast ==
    Returned =>
        /\ \A p \in 1..Len(result[1]) :
             IsIsoDate(result[1][p].raw_date) \/ result[1][p].raw_date = Sentinel
        /\ \A p, q \in 1..Len(result[1]) :
             (IsIsoDate(result[1][p].raw_date) /\ ~IsIsoDate(result[1][q].raw_date))
                => p < q

(* C5: a catalog call for artist k that fails with HTTP 429 is followed by the
   back-off, leaves artist k without any event, and does not end the run:
   unless some call fails otherwise the function does not raise, and when it
   returns every artist within the cap has been taken and every event of
   every successful fetch is in the returned list. *)
C5_RateLimitSkips ==
    /\ \A p \in 1..Len(log) :
         (IsCall(log[p]) /\ log[p][3] = TooManyRequests) =>
            /\ p < Len(log) /\ log[p + 1] = <<"sleep", BackoffMs>>
            /\ fetched[log[p][2]] = None
            /\ \A q \in 1..Len(all_concerts) :
                 all_concerts[q].artist.name # artists[log[p][2]].name
    /\ pc = "raised" => \E p \in 1..Len(log) : FatalCallAt(p)
    /\ Returned =>
         /\ \A k \in 1..Cap : \E p \in 1..Len(log) : log[p][1] = "match" /\ log[p][2] = k
         /\ \A k \in 1..Len(fetched) :
              fetched[k] # None => Ids(fetched[k][1]) \subseteq Ids(result[1])

\* returned although an earlier artist was rate limited, with a later
\* artist's events in the list
C5_Witness ==
    /\ Returned
    /\ \E k \in 1..Len(fetched) :
         /\ RateLimitedCall(k)
         /\ \E k2 \in 1..Len(fetched) :
              /\ k2 > k
              /\ fetched[k2] # None
              /\ fetched[k2][1] # <<>>
              /\ Ids(fetched[k2][1]) \subseteq Ids(result[1])

(* C6: a catalog call that fails with an HTTP status other than 429, or with a
   transport failure, makes find_concerts_for_artists raise that error: no
   list is returned, and the failed call is the last thing the run does. *)
C6_FatalErrorPropagates ==
    \A p \in 1..Len(log) :
        FatalCallAt(p) =>
           /\ pc = "raised"
           /\ result = None
           /\ error # None /\ error[1].status = log[p][3]
           /\ p = Len(log)

\* raised with events of an earlier artist accumulated and artists left over
C6_Witness ==
    /\ pc = "raised"
    /\ all_concerts # <<>>
    /\ i < Len(artists_to_search)
    /\ result = None

(* C7: for a cap max_artists >= 0 only the first min(n, max_artists) artists
   are sent to the matcher, in ranked order; no artist beyond the cap is
   matched or fetched and no event is attributed to one. *)
C7_CapEnforced ==
    LET c == Calls
    IN  /\ \A p \in 1..Len(c) :
             /\ c[p][2] \in 1..Cap
             /\ artists_to_search[c[p][2]] = artists[c[p][2]]
             /\ p < Len(c) => c[p][2] <= c[p + 1][2]
        /\ \A p \in 1..Len(all_concerts) :
             \E k \in 1..Cap : all_concerts[p].artist = ArtistInfo(k)
        /\ Returned =>
             \A k \in 1..Cap : \E p \in 1..Len(c) : c[p][1] = "match" /\ c[p][2] = k

\* returned with the list longer than the cap, after the cap's artists were
\* matched
C7_Witness ==
    /\ Returned
    /\ max_artists >= 1
    /\ max_artists < Len(artists)
    /\ \E p \in 1..Len(log) : log[p][1] = "match" /\ log[p][2] = max_artists

(* C11: every accumulated (and returned) event was returned by a successful
   fetch that was issued for the attraction id a successful match of its
   attributed artist resolved; an artist whose match reported no match, or
   whose match or fetch was rate limited, contributes no event. *)
C11_EventsHaveResolvedSource ==
    LET c == Calls
        \* artist k's match resolved an id and the fetch for that id succeeded
        Resolved(k) ==
            \E m \in 1..Len(c) :
               /\ c[m][1] = "match" /\ c[m][2] = k /\ c[m][3] = 200
               /\ c[m][4] # None
               /\ \E f \in (m + 1)..Len(c) :
                    /\ c[f][1] = "fetch" /\ c[f][2] = k /\ c[f][3] = 200
                    /\ c[f][4] = c[m][4]
        \* artist k's match found nothing, or a call for k was rate limited
        Skipped(k) ==
            \E m \in 1..Len(c) :
               /\ c[m][2] = k
               /\ \/ c[m][3] = TooManyRequests
                  \/ c[m][1] = "match" /\ c[m][3] = 200 /\ c[m][4] = None
    IN  /\ \A k \in 1..Len(fetched) : fetched[k] # None => Resolved(k)
        /\ \A p \in 1..Len(all_concerts) :
             \E k \in 1..Len(fetched) :
                /\ all_concerts[p].artist = ArtistInfo(k)
                /\ fetched[k] # None
                /\ all_concerts[p].id \in Ids(fetched[k][1])
        /\ \A k \in 1..Len(astate) :
             Skipped(k) =>
                /\ fetched[k] = None
                /\ \A p \in 1..Len(all_concerts) :
                     all_concerts[p].artist.name # artists[k].name

\* returned events of one artist after another artist's match found nothing
\* and a third artist's fetch was rate limited
C11_Witness ==
    /\ Returned
    /\ result[1] # <<>>
    /\ \E m \in 1..Len(log) :
         log[m][1] = "match" /\ log[m][3] = 200 /\ log[m][4] = None
    /\ \E f \in 1..Len(log) :
         log[f][1] = "fetch" /\ log[f][3] = TooManyRequests

PerArtistStates ==
    {"Pending", "Matched", "NoMatch-Skip", "Fetched", "RateLimited-Skip",
     "Error-Abort"}

\* the transitions of the spec's state machine view
ClaimedTransitions ==
    { <<"Pending", "Matched">>, <<"Pending", "NoMatch-Skip">>,
      <<"Matched", "Fetched">>, <<"Matched", "RateLimited-Skip">>,
      <<"Matched", "Error-Abort">> }

\* with the failures of the match call, which the same try block handles
CodeTransitions ==
    ClaimedTransitions \cup
    { <<"Pending", "RateLimited-Skip">>, <<"Pending", "Error-Abort">> }

\* the changes of per-artist state in one step
StateChanges ==
    { <<astate[k], astate'[k]>> :
        k \in {x \in (DOMAIN astate) \cap (DOMAIN astate') : astate[x] # astate'[x]} }

(* C12, as claimed: the per-artist state only changes along Pending to
   Matched, Pending to NoMatch-Skip, Matched to Fetched, Matched to
   RateLimited-Skip and Matched to Error-Abort; RateLimited-Skip and
   Error-Abort are entered only from Matched. *)
C12_ClaimedTransitionsOnly == [][StateChanges \subseteq ClaimedTransitions]_vars

(* C12, amended: the per-artist state only changes along the claimed
   transitions and along Pending to RateLimited-Skip and Pending to
   Error-Abort, taken when the match call itself fails; an artist enters the
   loop Pending and a state other than Pending and Matched is never left. *)
C12_TransitionsOfTheCode ==
    [][/\ StateChanges \subseteq CodeTransitions
       /\ \A k \in DOMAIN astate' :
             /\ astate'[k] \in PerArtistStates
             /\ k \notin DOMAIN astate => astate'[k] = "Pending"]_vars

\* an artist was rate limited by its match call, without ever being Matched
C12_Witness ==
    \E k \in 1..Len(astate) :
        /\ astate[k] = "RateLimited-Skip"
        /\ \E m \in 1..Len(log) :
              log[m][1] = "match" /\ log[m][2] = k /\ log[m][3] = TooManyRequests
        /\ \A f \in 1..Len(log) : ~(log[f][1] = "fetch" /\ log[f][2] = k)

\* the positions among the catalog calls of the calls op for artist k
CallsOf(op, k) == {p \in 1..Len(Calls) : Calls[p][1] = op /\ Calls[p][2] = k}

(* C13: in one run each artist within the cap gets at most one match call and
   at most one fetch call; an artist's fetch is issued only after that
   artist's match returned an identifier; and every call for an artist comes
   before the match call of the next artist. *)
C13_OneCallEachInOrder ==
    LET c == Calls
    IN  /\ \A p, q \in 1..Len(c) :
             /\ (p # q /\ c[p][2] = c[q][2]) => c[p][1] # c[q][1]
             /\ (c[p][2] < c[q][2] /\ c[q][1] = "match") => p < q
        /\ \A f \in 1..Len(c) :
             c[f][1] = "fetch" =>
                \E m \in 1..(f - 1) :
                   /\ c[m][1] = "match" /\ c[m][2] = c[f][2]
                   /\ c[m][3] = 200 /\ c[m][4] # None
        /\ Returned =>
             \A k \in 1..Len(artists_to_search) :
                \E m \in 1..Len(c) : c[m][1] = "match" /\ c[m][2] = k

\* returned after a rate-limited fetch that was not tried again and a later
\* artist's match and fetch
C13_Witness ==
    /\ Returned
    /\ \E k \in 1..Len(artists_to_search) :
         /\ \E f \in CallsOf("fetch", k) : Calls[f][3] = TooManyRequests
         /\ \E k2 \in 1..Len(artists_to_search) :
              k2 > k /\ CallsOf("fetch", k2) # {}

(* C14: a pacing sleep comes directly before every match call except the
   first of the run and directly before every fetch call, so between two
   consecutive catalog calls there is a pacing sleep whatever the earlier
   call's outcome was. *)
C14_PacedCalls ==
    \A p \in 1..Len(log) :
        IsCall(log[p]) =>
           /\ (log[p][1] = "fetch" \/ \E q \in 1..(p - 1) : IsCall(log[q]))
                 => (p > 1 /\ log[p - 1] = <<"sleep", PaceMs>>)
           /\ (log[p][1] = "match" /\ p > 1) => log[p - 1] = <<"sleep", PaceMs>>

\* a match followed a no-match and another match followed a rate-limited call
C14_Witness ==
    /\ \E p \in 1..Len(log) :
         /\ log[p][1] = "match" /\ log[p][3] = 200 /\ log[p][4] = None
         /\ p + 2 <= Len(log) /\ log[p + 2][1] = "match"
    /\ \E p \in 1..Len(log) :
         /\ IsCall(log[p]) /\ log[p][3] = TooManyRequests
         /\ p + 3 <= Len(log) /\ log[p + 3][1] = "match"

Ended == pc \in {"done", "raised"}

\* the last artist within the cap was processed or skipped and the list is
\* returned
NormalEnd ==
    /\ pc = "done"
    /\ result = Some(all_concerts)
    /\ error = None
    /\ i = Cap
    /\ \A k \in 1..Cap : astate[k] \in {"NoMatch-Skip", "RateLimited-Skip", "Fetched"}
    /\ \A p \in 1..Len(log) : ~FatalCallAt(p)

\* the run stopped at its first failure other than 429
AbnormalEnd ==
    /\ pc = "raised"
    /\ result = None
    /\ error # None
    /\ log # <<>>
    /\ \A p \in 1..Len(log) : FatalCallAt(p) <=> p = Len(log)
    /\ error[1].status = log[Len(log)][3]

\* the steps left at most: it falls with every step of the function
StepsLeft ==
    (Len(artists) - i) * (MaxBatch + 4)
    + CASE pc = "start" -> 2
        [] pc = "loop"  -> 1
        [] pc = "match" -> MaxBatch + 4
        [] pc = "fetch" -> MaxBatch + 3
        [] pc = "merge" -> 2 + Len(concerts) - j
        [] OTHER        -> 0

\* an ended run ended in exactly one of the two ways, a failure other than
\* 429 has ended the run, and the steps left are not negative
EndsProperly ==
    /\ Ended => (NormalEnd /\ ~AbnormalEnd) \/ (AbnormalEnd /\ ~NormalEnd)
    /\ (\E p \in 1..Len(log) : FatalCallAt(p)) => pc = "raised"
    /\ StepsLeft >= 0

(* C15: for every finite artist list and every sequence of catalog outcomes
   in which each call responds, the run ends and stays ended, each step
   bringing it closer; it ends in exactly one of two ways: normally, after
   the last artist within the cap, returning the list, or abnormally, at the
   first failure other than 429. *)
C15_EndsOneWayOrTheOther ==
    /\ <>[]Ended
    /\ EndsProperly
    /\ [][EndsProperly' /\ StepsLeft' < StepsLeft]_vars

\* a run that returned after a rate-limited artist, all artists taken
C15_Witness ==
    /\ NormalEnd
    /\ Cap = MaxArtists
    /\ \E k \in 1..Cap : astate[k] = "RateLimited-Skip"
    /\ \E k \in 1..Cap : astate[k] = "Fetched"

----------------------------------------------------------------------------
(* Vocabulary of the aggregation properties, read off the three windows *)

\* where id occurs: <<window, position>>
Occurrences(id) ==
    {o \in (1..Len(windows)) \X (1..MaxWindow) :
        o[2] <= Len(windows[o[1]]) /\ windows[o[1]][o[2]].id = id}

TotalCount(id) == Cardinality(Occurrences(id))

WindowsWith(id) == {o[1] : o \in Occurrences(id)}

ScannedBefore(o1, o2) == o1[1] < o2[1] \/ (o1[1] = o2[1] /\ o1[2] < o2[2])

\* id1 was first observed before id2, scanning short, medium, long
FirstObservedBefore(id1, id2) ==
    \E o1 \in Occurrences(id1) :
        \A o2 \in Occurrences(id2) : ScannedBefore(o1, o2)

AggReturned == pc = "agg_done" /\ top_artists # None

(* C8: the list get_all_top_artists returns has unique artist ids, is ordered
   by non-increasing total appearance count across the windows, and has every
   artist present in all three windows before every artist present in exactly
   one. *)
C8_UniqueByDescendingCount ==
    AggReturned =>
        \A p, q \in 1..Len(top_artists[1]) :
            LET x == top_artists[1][p].id
                y == top_artists[1][q].id
            IN  /\ p # q => x # y
                /\ p < q => TotalCount(x) >= TotalCount(y)
                /\ (Cardinality(WindowsWith(x)) = 3 /\ Cardinality(WindowsWith(y)) = 1)
                      => p < q

\* an artist of all three windows was returned before an artist of one
\* window that had been observed first
C8_Witness ==
    /\ AggReturned
    /\ \E p, q \in 1..Len(top_artists[1]) :
         LET x == top_artists[1][p].id
             y == top_artists[1][q].id
         IN  /\ p < q
             /\ Cardinality(WindowsWith(x)) = 3
             /\ Cardinality(WindowsWith(y)) = 1
             /\ FirstObservedBefore(y, x)

(* C9: two artists with equal total appearance count are returned in the order
   in which their ids were first observed when the windows are scanned short,
   then medium, then long. *)
C9_TiesKeepFirstObservation ==
    AggReturned =>
        \A p, q \in 1..Len(top_artists[1]) :
            LET x == top_artists[1][p].id
                y == top_artists[1][q].id
            IN  (p < q /\ TotalCount(x) = TotalCount(y)) => FirstObservedBefore(x, y)

\* two artists tie behind an artist that was observed after both of them
C9_Witness ==
    /\ AggReturned
    /\ \E r, p, q \in 1..Len(top_artists[1]) :
         LET z == top_artists[1][r].id
             x == top_artists[1][p].id
             y == top_artists[1][q].id
         IN  /\ r < p /\ p < q
             /\ TotalCount(x) = TotalCount(y)
             /\ TotalCount(z) > TotalCount(x)
             /\ FirstObservedBefore(y, z)

\* the occurrence of id scanned after all its other occurrences
LastOccurrence(id) ==
    CHOOSE o \in Occurrences(id) :
        \A o2 \in Occurrences(id) : o2 = o \/ ScannedBefore(o2, o)

\* the rank order of C8 and C9: more windows first, ties by first observation
RanksBefore(x, y) ==
    \/ TotalCount(x) > TotalCount(y)
    \/ (TotalCount(x) = TotalCount(y) /\ FirstObservedBefore(x, y))

(* C16: when the same artist id occurs in more than one window, the record
   get_all_top_artists returns for that id carries the image and genre fields
   of its last occurrence in scan order short, medium, long (last write wins),
   while its rank position is still the one given by its total count and first
   observation. *)
C16_LastWriteWins ==
    AggReturned =>
        \A p \in 1..Len(top_artists[1]) :
            LET rec == top_artists[1][p]
                last == LastOccurrence(rec.id)
                observed == windows[last[1]][last[2]]
            IN  /\ Occurrences(rec.id) # {}
                /\ rec.image_url = observed.image_url
                /\ rec.genres = observed.genres
                /\ rec = observed
                /\ \A q \in 1..Len(top_artists[1]) :
                      p < q => RanksBefore(rec.id, top_artists[1][q].id)

\* an artist of the short and the long window, whose records differ, is
\* returned ahead of an artist that was observed before it
C16_Witness ==
    /\ AggReturned
    /\ \E p, q \in 1..Len(top_artists[1]) :
         LET x == top_artists[1][p].id
             y == top_artists[1][q].id
             first == CHOOSE o \in Occurrences(x) :
                          \A o2 \in Occurrences(x) : o2 = o \/ ScannedBefore(o, o2)
         IN  /\ p < q
             /\ TotalCount(x) >= 2
             /\ FirstObservedBefore(y, x)
             /\ windows[first[1]][first[2]] # top_artists[1][p]
             /\ \E z \in 1..Len(top_artists[1]) :
                   /\ WindowsWith(top_artists[1][z].id) = {1, 2}
                   /\ top_artists[1][z].image_url = None

----------------------------------------------------------------------------
(* Vocabulary of the matching property *)

\* s = pre \o sub \o post for some pre and post
Contains(s, sub) ==
    \E from \in 0..Len(s) : \E to \in from..Len(s) : SubSeq(s, from + 1, to) = sub

\* the candidates of the response, none when nothing is embedded
Listed ==
    IF m_data.embedded /\ m_data.attractions # None THEN m_data.attractions[1] ELSE <<>>

FoldedName(p) == Lower(IF Listed[p].name = None THEN <<>> ELSE Listed[p].name[1])

Hits == {p \in 1..Len(Listed) : Contains(FoldedName(p), Lower(m_name))}

MatchReturned == pc = "m_done"

(* C10: find_attraction_id returns the id of the first candidate, in the order
   the catalog returned them, whose case-folded name equals the case-folded
   artist name or contains it; it returns no match when no candidate does or
   nothing is embedded.  An exact case-insensitive name always matches and a
   candidate whose name does not contain the query never does. *)
C10_FirstContainingCandidate ==
    MatchReturned =>
        /\ Hits # {} =>
              \E p \in Hits : (\A q \in Hits : p <= q) /\ m_result = Some(Listed[p].id)
        /\ Hits = {} => m_result = None
        /\ ~m_data.embedded => m_result = None
        /\ (\E p \in 1..Len(Listed) : FoldedName(p) = Lower(m_name)) => m_result # None
        /\ m_result # None =>
              \E p \in 1..Len(Listed) :
                  /\ m_result = Some(Listed[p].id)
                  /\ Contains(FoldedName(p), Lower(m_name))

\* the first candidate does not contain the query, the second contains it
\* without being equal to it, and the second's id is returned
C10_Witness ==
    /\ MatchReturned
    /\ Len(Listed) >= 2
    /\ 1 \notin Hits
    /\ 2 \in Hits
    /\ FoldedName(2) # Lower(m_name)
    /\ Listed[1].id # Listed[2].id
    /\ m_result = Some(Listed[2].id)

----------------------------------------------------------------------------
(* Vocabulary of the formatting property *)

DateParses(s) == strptime(s, DateFormat).exc = ""

TimeParses(s) == strptime(s, TimeFormat).exc = ""

\* " at <hh:mm AM|PM>" ends s
HasTimeSuffix(s) ==
    /\ Len(s) >= 12
    /\ SubSeq(s, Len(s) - 11, Len(s) - 8) = S_at
    /\ s[Len(s) - 5] = 58
    /\ SubSeq(s, Len(s) - 1, Len(s)) \in {<<65, 77>>, <<80, 77>>}

S_Jul04_2024 == <<74, 117, 108, 32, 48, 52, 44, 32, 50, 48, 50, 52>>
S_0730PM == <<48, 55, 58, 51, 48, 32, 80, 77>>
S_1205AM == <<49, 50, 58, 48, 53, 32, 65, 77>>

(* C17: in search_concerts_by_attraction a date or time string that fails to
   parse never produces an error: when the local date is malformed, or the date
   is valid but a present local time is malformed, the event is still emitted
   with its formatted date equal to the raw, unformatted date string; the
   formatted date carries the time suffix only when both date and time
   parse. *)
C17_ParseFailureFallsBack ==
    /\ pc # "fetch_raised"
    /\ f_error = None
    /\ Len(f_events) = f_n
    /\ pc = "fetch_done" => f_n = Len(f_data)
    /\ \A k \in 1..Len(f_events) :
          LET raw == GetStr(f_data[k].localDate)
              time == GetStr(f_data[k].localTime)
              concert == f_events[k]
          IN  /\ concert.id = f_data[k].id
              /\ concert.raw_date = raw
              /\ ~DateParses(raw) => concert.date = raw
              /\ (DateParses(raw) /\ time # S_Empty /\ ~TimeParses(time))
                    => concert.date = raw
              /\ HasTimeSuffix(concert.date) => DateParses(raw) /\ TimeParses(time)
              /\ (DateParses(raw) /\ time # S_Empty /\ TimeParses(time))
                    => HasTimeSuffix(concert.date)

\* an event with a valid date and a time without seconds was emitted with the
\* raw date, then an event whose date and time parse with date and suffix
C17_Witness ==
    /\ pc = "fetch_done"
    /\ Len(f_events) = 2
    /\ f_data[1].localDate = Some(S_2024_7_4) /\ f_data[1].localTime = Some(S_1930)
    /\ f_events[1].date = S_2024_7_4
    /\ f_data[2].localDate = Some(S_2024_7_4) /\ f_data[2].localTime = Some(S_000500)
    /\ f_events[2].date = S_Jul04_2024 \o S_at \o S_1205AM
    /\ f_events[2].date # f_events[2].raw_date

----------------------------------------------------------------------------
(* Vocabulary of the handler property *)

\* the exceptions the calls of the request raised
RaisedIn(calls) ==
    {calls[k][Len(calls[k])].raised[1] :
        k \in {n \in 1..Len(calls) : calls[n][Len(calls[n])].raised # None}}

\* the events the calls of the request had in hand, returned or not
GatheredIn(calls) ==
    UNION {Ids(calls[k][Len(calls[k])].gathered) \cup
           Ids(calls[k][Len(calls[k])].value) : k \in 2..Len(calls)}

Responded == pc = "app" /\ response # None

(* C18: when artist aggregation or concert resolution raises any error during
   the /concerts request of a logged-in session, the handler does not crash:
   it renders the concerts page with an empty concert list, artist count 0 and
   the error's message, and never shows events gathered before the failure;
   without an access token in the session the handler redirects to the index
   and invokes neither aggregation nor resolution. *)
C18_ErrorsAreRendered ==
    Responded =>
        /\ response[1].kind # "unhandled"
        /\ Falsy(session.access_token)
              => response[1] = Redirect("index") /\ invoked = <<>>
        /\ ~Falsy(session.access_token)
              => /\ response[1].kind = "render"
                 /\ Len(invoked) >= 1
                 /\ invoked[1][1] = "get_all_top_artists"
                 /\ \A e \in RaisedIn(invoked) :
                       /\ response[1].template = "concerts.html"
                       /\ response[1].concerts = <<>>
                       /\ response[1].artist_count = 0
                       /\ response[1].error = Some(e.message)
                       /\ invoked[Len(invoked)][Len(invoked[Len(invoked)])].raised
                              = Some(e)

\* resolution raised with two events in hand, after the aggregation had
\* returned two artists: the page shows the message and no event
C18_Witness ==
    /\ Responded
    /\ Len(invoked) = 2
    /\ Len(invoked[1][3].value) = 2
    /\ invoked[2][4].raised # None
    /\ Cardinality(GatheredIn(invoked)) = 2
    /\ response[1].kind = "render"
    /\ response[1].error = Some("500 Server Error")
    /\ response[1].concerts = <<>>

----------------------------------------------------------------------------
(* Vocabulary of the accumulation property *)

\* t is s, or s with one entry appended
GrownByAppending(s, t) ==
    \/ t = s
    \/ (Len(t) = Len(s) + 1 /\ SubSeq(t, 1, Len(s)) = s)

InLoop == pc \in {"loop", "match", "fetch", "merge"}

(* C19: at every point of the per-artist loop of find_concerts_for_artists the
   seen-event-id set equals exactly the set of ids of the events in the
   accumulated result list, and the accumulated list only grows by appending:
   no event already accumulated is removed, reordered or re-attributed before
   the final sort. *)
C19_SeenSetIsAccumulatedIds ==
    /\ [](InLoop => /\ seen_event_ids = Ids(all_concerts)
                    /\ Cardinality(seen_event_ids) = Len(all_concerts))
    /\ [][InLoop /\ pc' # "done"
             => /\ GrownByAppending(all_concerts, all_concerts')
                /\ seen_event_ids \subseteq seen_event_ids'
                /\ all_concerts' # all_concerts
                      => all_concerts'[Len(all_concerts')].id \notin seen_event_ids]_vars

\* the second artist's batch repeats an event of the first artist and adds a
\* new one: the repeat was skipped, the new one appended
C19_Witness ==
    /\ pc = "merge"
    /\ i = 2
    /\ j = 2
    /\ fetched[1] # None
    /\ concerts[1].id \in Ids(fetched[1][1])
    /\ concerts[2].id \notin Ids(fetched[1][1])
    /\ Len(all_concerts) = Len(fetched[1][1]) + 1
    /\ Len(fetched[1][1]) = 2
    /\ seen_event_ids = Ids(all_concerts)

====
